---- MODULE Spec2Model ----
(***************************************************************************)
(* The database layer of the migrator (src/migrator/db.py) seen by several *)
(* orchestrator processes, each holding its own Database object (its own   *)
(* connection and in_tx flag) on one shared PostgreSQL database.           *)
(*                                                                         *)
(* A statement is modelled by its effect on the rows of the table: the     *)
(* rows its WHERE clause selects, the columns its SET clause assigns, the  *)
(* CHECK constraints and unique indexes of SCHEMA_DDL that accept or       *)
(* reject the result, and READ COMMITTED visibility between the            *)
(* transactions of different connections (a writer that meets an           *)
(* uncommitted change of another connection waits for it).  The names in   *)
(* a statement's column list are not modelled: a statement returns the     *)
(* rows it touched.  (AuditMapper.fields takes its names from the          *)
(* dataclass MigrationAudit and so lists is_revert, which SCHEMA_DDL does  *)
(* not define; every result below is the row of the table.)                *)
(*                                                                         *)
(* The connection is set to autocommit and tx() wraps its body in "with    *)
(* self.conn".  Whether that opens a transaction depends on the psycopg2   *)
(* installed, which setup.py does not pin: the model carries both builds.  *)
(*                                                                         *)
(* The data model (src/migrator/models.py) is a set of pure functions:     *)
(* a specification of it draws the arguments of a call at the start and    *)
(* its actions compute the result as the code does.                        *)
(***************************************************************************)
EXTENDS Integers, Sequences, FiniteSets, TLC

\* ------------------------------------------------------------------ bounds
MaxId == 3          \* values the serial sequence of migration_audit.id hands out
MaxClock == 2       \* transactions opened in a behaviour (the values of now())
MaxRevision == 2    \* revision numbers of the indices compared and sliced
MaxPhases == 2      \* changes of a stage, and phases of a change

Procs == {1, 2}     \* orchestrator processes, one Database object each
Texts == {1, 2}     \* file texts
Numbers == {1, 2}   \* revision numbers
NULL == 0 - 1       \* SQL NULL / Python None in a timestamp column; the clock
                    \* reads 0 when a behaviour starts and now() is >= 1

\* ------------------------------------------------------- identity & hashing
\* hashlib.sha256(text).digest(): a digest that differs for different texts.
sha256(text) == <<"sha256", text>>

Hashes == {sha256(t) : t \in Texts}

\* dataclass PhaseIndex, the coordinates the ledger is driven with
PhaseIndex ==
    [revision : {1}, migration_hash : Hashes, schema_hash : {sha256(1)},
     pre_deploy : BOOLEAN, change : {0}, phase : {0}]

NoIndex ==
    [revision |-> 0, migration_hash |-> sha256(0), schema_hash |-> sha256(0),
     pre_deploy |-> TRUE, change |-> 0, phase |-> 0]

\* constants.SCHEMA_NAME: the name of the control schema
SCHEMA_NAME == <<"schema", 0>>

\* constants.SHIM_SCHEMA_FORMAT % revision: the name of the shim schema of a
\* revision, one name per revision number and none of them the control schema's
SHIM_SCHEMA_FORMAT(revision) == <<"schema", revision>>

\* class Revision: number, migration_text, schema_text
Revision == [number : Numbers, migration_text : Texts, schema_text : Texts]

\* Revision.migration_hash
migration_hash(revision) == sha256(revision.migration_text)

\* Revision.schema_hash
schema_hash(revision) == sha256(revision.schema_text)

\* ------------------------------------------------------------------- state
VARIABLES
    audit,       \* migration_audit: the newest version of every row
    undo,        \* per connection: the uncommitted changes of its open transaction
    next_id,     \* the sequence behind migration_audit.id
    migrations,  \* the registry table
    schemata,    \* the schemas of the database, by name (the newest version)
    in_tx,       \* Database.in_tx of each process
    with_conn_begins,  \* the installed psycopg2: whether "with self.conn" opens
                 \* a transaction on a connection set to autocommit (releases
                 \* from 2.9 on do, earlier ones do not); setup.py pins none
    exc,         \* the exception the last call of each process raised, NoExc if
                 \* it returned; inside tx() it propagates through the body
    clock,       \* wall clock, read when a transaction starts
    now,         \* now() of each connection: its transaction's start time
    ret,         \* what the last call of each process returned, if it was a read
    left_behind, \* the ids of the rows an orchestrator had started and not
                 \* finished when its process ended without closing them
    call,        \* the call of a function of models.py under way: name, arguments
    out          \* what that call returned or raised, NoOut until it has

vars ==
    <<audit, undo, next_id, migrations, schemata, in_tx, with_conn_begins, exc,
      clock, now, ret, left_behind, call, out>>

\* the state of the data model (models.py), which no Database method touches
models == <<call, out>>

NoCall == [op |-> "none"]

NoOut == [op |-> "none"]

\* ins, old: the audit rows inserted and the old versions of the rows updated;
\* created, dropped: the schemas created and dropped
NoUndo == [ins |-> {}, old |-> {}, created |-> {}, dropped |-> {}]

NoExc == [op |-> "none", error |-> "none"]

Raised(op, error) == [op |-> op, error |-> error]

NoRet == [op |-> "none", index |-> NoIndex, id |-> 0]

\* the ids of the rows a connection has inserted or updated and not yet committed
Locked(p) == undo[p].ins \cup {r.id : r \in undo[p].old}

\* READ COMMITTED: the rows a statement of p sees, its own uncommitted changes
\* and the committed version of every row another connection is changing
View(p) ==
    {r \in audit : \A q \in Procs \ {p} : r.id \notin Locked(q)}
        \cup UNION {undo[q].old : q \in Procs \ {p}}

\* the rows a new connection sees
Committed ==
    {r \in audit : \A q \in Procs : r.id \notin Locked(q)}
        \cup UNION {undo[q].old : q \in Procs}

\* InFlight with the revert half of the predicate forgotten
InFlight_ForwardOnly(r) == r.finished_at = NULL

\* the predicate of the partial index migration_audit_unique
InFlight(r) ==
    \/ r.finished_at = NULL
    \/ r.revert_started_at # NULL /\ r.revert_finished_at = NULL

\* CheckConstraints of a table created without its CHECK constraints
CheckConstraints_Absent(r) == TRUE

\* the two CHECK constraints of migration_audit
CheckConstraints(r) ==
    /\ r.revert_started_at = NULL \/ r.finished_at # NULL
    /\ r.revert_finished_at = NULL \/ r.revert_started_at # NULL

\* Database.__init__ on a database whose control schema has just been created
Init ==
    /\ audit = {}
    /\ undo = [p \in Procs |-> NoUndo]
    /\ next_id = 1
    /\ migrations = {}
    /\ schemata = {SCHEMA_NAME}
    /\ in_tx = [p \in Procs |-> FALSE]
    /\ with_conn_begins \in BOOLEAN
    /\ exc = [p \in Procs |-> NoExc]
    /\ clock = 0
    /\ now = [p \in Procs |-> 0]
    /\ ret = [p \in Procs |-> NoRet]
    /\ left_behind = {}
    /\ call = NoCall
    /\ out = NoOut

\* ------------------------------------------------------------- transactions
\* control of p is in its caller or in the body of tx(), not in an exception
\* that is unwinding the body
Running(p) == ~(in_tx[p] /\ exc[p] # NoExc)

\* the connection of p has a transaction open: the statements of p are
\* committed or rolled back together when tx() exits; otherwise the connection
\* is in autocommit and every statement commits on its own
InTransaction(p) == in_tx[p] /\ with_conn_begins

\* now() in a statement of p: the start of its transaction, or of the
\* statement itself in autocommit
Now(p) == IF InTransaction(p) THEN now[p] ELSE clock

\* Database.tx, entry: assert not self.in_tx; with self.conn: self.in_tx = True
tx_enter(p) ==
    /\ Running(p)
    /\ IF in_tx[p]
       THEN /\ exc' = [exc EXCEPT ![p] = Raised("tx", "AssertionError")]
            /\ UNCHANGED <<clock, now, in_tx>>
       ELSE /\ clock < MaxClock
            /\ clock' = clock + 1
            /\ now' = [now EXCEPT ![p] = clock + 1]
            /\ in_tx' = [in_tx EXCEPT ![p] = TRUE]
            /\ exc' = [exc EXCEPT ![p] = NoExc]
    /\ ret' = [ret EXCEPT ![p] = NoRet]
    /\ UNCHANGED <<audit, undo, next_id, migrations, schemata, with_conn_begins, left_behind, models>>

\* Database.tx, exit: finally self.in_tx = False, then the connection's
\* __exit__ commits when the body returned and rolls back when it raised
\* (with nothing to commit or roll back when no transaction was opened)
tx_exit(p) ==
    /\ in_tx[p]
    /\ in_tx' = [in_tx EXCEPT ![p] = FALSE]
    /\ undo' = [undo EXCEPT ![p] = NoUndo]
    /\ now' = [now EXCEPT ![p] = 0]
    /\ audit' = IF exc[p] = NoExc
                  THEN audit
                  ELSE {r \in audit : r.id \notin Locked(p)} \cup undo[p].old
    /\ schemata' = IF exc[p] = NoExc
                    THEN schemata
                    ELSE (schemata \ undo[p].created) \cup undo[p].dropped
    /\ exc' = [exc EXCEPT ![p] = NoExc]
    /\ ret' = [ret EXCEPT ![p] = NoRet]
    /\ UNCHANGED <<next_id, migrations, clock, with_conn_begins, left_behind, models>>

\* ------------------------------------------------------------------ ledger
\* migration_audit_unique created without its WHERE clause: every row of the
\* table is indexed under the constant (1)
migration_audit_unique_AllRows(p, new) ==
    LET others == Procs \ {p}
        live == {r \in audit : /\ r.id # new.id
                               /\ \A q \in others : r.id \notin Locked(q)}
        pending == {r \in audit \cup UNION {undo[q].old : q \in others} :
                       /\ r.id # new.id
                       /\ \E q \in others : r.id \in Locked(q)}
    IN  IF live # {} THEN "conflict"
        ELSE IF pending # {} THEN "wait"
        ELSE "ok"

\* migration_audit_unique as an index on the six index columns instead of the
\* constant (1): one in-flight row per PhaseIndex
migration_audit_unique_PerIndex(p, new) ==
    LET others == Procs \ {p}
        live == {r \in audit : /\ r.id # new.id
                               /\ r.index = new.index
                               /\ \A q \in others : r.id \notin Locked(q)
                               /\ InFlight(r)}
        pending == {r \in audit \cup UNION {undo[q].old : q \in others} :
                       /\ r.id # new.id
                       /\ r.index = new.index
                       /\ \E q \in others : r.id \in Locked(q)
                       /\ InFlight(r)}
    IN  IF ~InFlight(new) THEN "ok"
        ELSE IF live # {} THEN "conflict"
        ELSE IF pending # {} THEN "wait"
        ELSE "ok"

\* What the unique index migration_audit_unique answers when p writes the
\* version new of a row: "conflict" when a live row already occupies the
\* index, "wait" when the only occupants are uncommitted changes of other
\* connections, "ok" otherwise.  Rows outside the predicate are not indexed.
migration_audit_unique(p, new) ==
    LET others == Procs \ {p}
        live == {r \in audit : /\ r.id # new.id
                               /\ \A q \in others : r.id \notin Locked(q)
                               /\ InFlight(r)}
        pending == {r \in audit \cup UNION {undo[q].old : q \in others} :
                       /\ r.id # new.id
                       /\ \E q \in others : r.id \in Locked(q)
                       /\ InFlight(r)}
    IN  IF ~InFlight(new) THEN "ok"
        ELSE IF live # {} THEN "conflict"
        ELSE IF pending # {} THEN "wait"
        ELSE "ok"

\* Database.first: objs[0] if objs else None (the id of the row, 0 for None)
first(objs) == IF Len(objs) > 0 THEN objs[1].id ELSE 0

\* one as lenient as first: an empty list is not an error
one_Lenient(objs) == "none"

\* Database.one: (obj,) = objs raises ValueError unless there is exactly one
one(objs) == IF Len(objs) = 1 THEN "none" ELSE "ValueError"

\* insert that keeps the row it could not index
insert_WriteThenCheck(p, op, index) ==
    LET row == [id |-> next_id, started_at |-> Now(p), finished_at |-> NULL,
                revert_started_at |-> NULL, revert_finished_at |-> NULL,
                index |-> index]
        answer == migration_audit_unique(p, row)
    IN  /\ next_id <= MaxId
        /\ answer # "wait"
        /\ next_id' = next_id + 1
        /\ audit' = audit \cup {row}
        /\ undo' = IF InTransaction(p)
                   THEN [undo EXCEPT ![p].ins = @ \cup {row.id}]
                   ELSE undo
        /\ exc' = [exc EXCEPT ![p] =
                     IF answer = "conflict" THEN Raised(op, "UniqueViolation")
                     ELSE Raised(one(<<row>>), one(<<row>>))]

\* Database.insert with AuditMapper: INSERT INTO migration_audit (the six
\* index fields) VALUES (...) RETURNING the row; id and started_at default
insert(p, op, index) ==
    LET row == [id |-> next_id, started_at |-> Now(p), finished_at |-> NULL,
                revert_started_at |-> NULL, revert_finished_at |-> NULL,
                index |-> index]
        answer == migration_audit_unique(p, row)
    IN  /\ next_id <= MaxId
        /\ answer # "wait"
        /\ next_id' = next_id + 1
        /\ IF answer = "conflict"
           THEN /\ exc' = [exc EXCEPT ![p] = Raised(op, "UniqueViolation")]
                /\ UNCHANGED <<audit, undo>>
           ELSE /\ audit' = audit \cup {row}
                /\ undo' = IF InTransaction(p)
                           THEN [undo EXCEPT ![p].ins = @ \cup {row.id}]
                           ELSE undo
                /\ exc' = [exc EXCEPT ![p] = Raised(one(<<row>>), one(<<row>>))]

\* update whose WHERE clause is only id = %s
update_Unconditional(p, op, id, col) ==
    LET seen == {r \in View(p) : r.id = id}
        r == CHOOSE r \in seen : TRUE
        new == [r EXCEPT ![col] = Now(p)]
        answer == migration_audit_unique(p, new)
        fail(error) ==
            /\ exc' = [exc EXCEPT ![p] = Raised(op, error)]
            /\ UNCHANGED <<audit, undo>>
    IN  /\ IF seen = {} THEN fail(one(<<>>))
           ELSE /\ \A q \in Procs \ {p} : id \notin Locked(q)
                /\ IF ~CheckConstraints(new) THEN fail("CheckViolation")
                   ELSE /\ answer # "wait"
                        /\ IF answer = "conflict" THEN fail("UniqueViolation")
                           ELSE /\ audit' = (audit \ {r}) \cup {new}
                                /\ undo' = [undo EXCEPT ![p].old =
                                              IF id \in Locked(p) \/ ~InTransaction(p)
                                              THEN @ ELSE @ \cup {r}]
                                /\ exc' = [exc EXCEPT ![p] =
                                             Raised(one(<<new>>), one(<<new>>))]
        /\ UNCHANGED next_id

\* Database.update with AuditMapper and the statement
\*   SET col = now() WHERE id = %s AND col IS NULL  RETURNING the rows
\* followed by Database.one on the rows returned
update(p, op, id, col) ==
    LET seen == {r \in View(p) : r.id = id /\ r[col] = NULL}
        r == CHOOSE r \in seen : TRUE
        new == [r EXCEPT ![col] = Now(p)]
        answer == migration_audit_unique(p, new)
        fail(error) ==
            /\ exc' = [exc EXCEPT ![p] = Raised(op, error)]
            /\ UNCHANGED <<audit, undo>>
    IN  /\ IF seen = {} THEN fail(one(<<>>))
           ELSE /\ \A q \in Procs \ {p} : id \notin Locked(q)
                /\ IF ~CheckConstraints(new) THEN fail("CheckViolation")
                   ELSE /\ answer # "wait"
                        /\ IF answer = "conflict" THEN fail("UniqueViolation")
                           ELSE /\ audit' = (audit \ {r}) \cup {new}
                                /\ undo' = [undo EXCEPT ![p].old =
                                              IF id \in Locked(p) \/ ~InTransaction(p)
                                              THEN @ ELSE @ \cup {r}]
                                /\ exc' = [exc EXCEPT ![p] =
                                             Raised(one(<<new>>), one(<<new>>))]
        /\ UNCHANGED next_id

\* _fetch_tx without its assertion
_fetch_tx_Unchecked(p, op, statement) ==
    /\ Running(p)
    /\ statement
    /\ ret' = [ret EXCEPT ![p] = NoRet]
    /\ UNCHANGED <<migrations, schemata, in_tx, with_conn_begins, left_behind, models, clock, now>>

\* Database._fetch_tx: assert self.in_tx, then the statement
_fetch_tx(p, op, statement) ==
    /\ Running(p)
    /\ IF in_tx[p] THEN statement
       ELSE /\ exc' = [exc EXCEPT ![p] = Raised(op, "AssertionError")]
            /\ UNCHANGED <<audit, undo, next_id>>
    /\ ret' = [ret EXCEPT ![p] = NoRet]
    /\ UNCHANGED <<migrations, schemata, in_tx, with_conn_begins, left_behind, models, clock, now>>

\* Database.audit_phase_start
audit_phase_start(p, index) ==
    _fetch_tx(p, "audit_phase_start", insert(p, "audit_phase_start", index))

\* Database.audit_phase_end
audit_phase_end(p, id) ==
    _fetch_tx(p, "audit_phase_end", update(p, "audit_phase_end", id, "finished_at"))

\* Database.audit_phase_revert_start
audit_phase_revert_start(p, id) ==
    _fetch_tx(p, "audit_phase_revert_start",
              update(p, "audit_phase_revert_start", id, "revert_started_at"))

\* Database.audit_phase_revert_end
audit_phase_revert_end(p, id) ==
    _fetch_tx(p, "audit_phase_revert_end",
              update(p, "audit_phase_revert_end", id, "revert_finished_at"))

\* ORDER BY id LIMIT 1: the oldest row first
OrderByIdAscLimit1(rows) ==
    IF rows = {} THEN <<>>
    ELSE <<CHOOSE r \in rows : \A r2 \in rows : r.id <= r2.id>>

\* ORDER BY id DESC LIMIT 1
OrderByIdDescLimit1(rows) ==
    IF rows = {} THEN <<>>
    ELSE <<CHOOSE r \in rows : \A r2 \in rows : r2.id <= r.id>>

\* Database.select with AuditMapper, through Database._fetch: assert not
\* self.in_tx, then the rows of the SELECT handed to the rest of the caller
select(p, op, index, rows, error) ==
    /\ Running(p)
    /\ IF in_tx[p]
       THEN /\ exc' = [exc EXCEPT ![p] = Raised(op, "AssertionError")]
            /\ ret' = [ret EXCEPT ![p] = NoRet]
       ELSE /\ exc' = [exc EXCEPT ![p] =
                        IF error = "none" THEN NoExc ELSE Raised(op, error)]
            /\ ret' = [ret EXCEPT ![p] =
                        IF error = "none"
                        THEN [op |-> op, index |-> index, id |-> first(rows)]
                        ELSE NoRet]
    /\ UNCHANGED <<audit, undo, next_id, migrations, schemata, in_tx, with_conn_begins, left_behind, models,
                 clock, now>>

\* Database.get_last_finished: first(select(... WHERE finished_at IS NOT NULL
\* AND revert_finished_at IS NOT NULL ORDER BY id DESC LIMIT 1))
get_last_finished(p) ==
    LET rows == OrderByIdDescLimit1(
                    {r \in View(p) : /\ r.finished_at # NULL
                                     /\ r.revert_finished_at # NULL})
    IN  select(p, "get_last_finished", NoIndex, rows, "none")

\* get_audit that matches the coordinate and not the hashes
get_audit_ByCoordinate(p, index) ==
    LET rows == OrderByIdDescLimit1(
                    {r \in View(p) : /\ r.index.revision = index.revision
                                     /\ r.index.pre_deploy = index.pre_deploy
                                     /\ r.index.phase = index.phase
                                     /\ r.index.change = index.change})
    IN  select(p, "get_audit", index, rows, one(rows))

\* Database.get_audit: one(select(... WHERE the six fields of index
\* ORDER BY id DESC LIMIT 1))
get_audit(p, index) ==
    LET rows == OrderByIdDescLimit1(
                    {r \in View(p) : /\ r.index.revision = index.revision
                                     /\ r.index.migration_hash = index.migration_hash
                                     /\ r.index.schema_hash = index.schema_hash
                                     /\ r.index.pre_deploy = index.pre_deploy
                                     /\ r.index.phase = index.phase
                                     /\ r.index.change = index.change})
    IN  select(p, "get_audit", index, rows, one(rows))

\* ---------------------------------------------------------------- registry
\* PRIMARY KEY (revision, migration_hash, schema_hash) of migrations
migrations_pkey(new) ==
    \E r \in migrations : /\ r.revision = new.revision
                          /\ r.migration_hash = new.migration_hash
                          /\ r.schema_hash = new.schema_hash

\* UNIQUE INDEX migration_unique_revision (revision) WHERE NOT is_deleted
migration_unique_revision(new) ==
    /\ ~new.is_deleted
    /\ \E r \in migrations : ~r.is_deleted /\ r.revision = new.revision

\* Database.upsert: through _fetch (assert not self.in_tx)
\*   INSERT ... VALUES (number, migration_hash, schema_hash, migration_text, TRUE)
\*   ON CONFLICT DO NOTHING RETURNING the row;
\* then assert result[0][3] == revision.migration_text
upsert(p, revision) ==
    LET new == [revision |-> revision.number,
                migration_hash |-> migration_hash(revision),
                schema_hash |-> schema_hash(revision),
                file |-> revision.migration_text,
                is_deleted |-> TRUE]
        conflict == migrations_pkey(new) \/ migration_unique_revision(new)
        result == IF conflict THEN <<>> ELSE <<new>>
        error == IF in_tx[p] THEN "AssertionError"
                 ELSE IF Len(result) = 0 THEN "IndexError"
                 ELSE IF result[1].file # revision.migration_text THEN "AssertionError"
                 ELSE "none"
    IN  /\ Running(p)
        /\ migrations' = IF in_tx[p] THEN migrations
                         ELSE migrations \cup {result[i] : i \in 1..Len(result)}
        /\ exc' = [exc EXCEPT ![p] =
                     IF error = "none" THEN NoExc ELSE Raised("upsert", error)]
        /\ ret' = [ret EXCEPT ![p] = NoRet]
        /\ UNCHANGED <<audit, undo, next_id, schemata, in_tx, with_conn_begins, left_behind, models,
                     clock, now>>

\* ----------------------------------------------------------------- catalog
\* the schemas a statement of p sees: its own uncommitted changes and the
\* committed state of what another connection is changing
SchemaView(p) ==
    (schemata \ UNION {undo[q].created : q \in Procs \ {p}})
        \cup UNION {undo[q].dropped : q \in Procs \ {p}}

\* Database.is_set_up: through _fetch (assert not self.in_tx)
\*   SELECT EXISTS (SELECT FROM information_schema.schemata WHERE schema_name = ...)
\* and [0][0] of the result (1 for True, 0 for False)
is_set_up(p) ==
    /\ Running(p)
    /\ IF in_tx[p]
       THEN /\ exc' = [exc EXCEPT ![p] = Raised("is_set_up", "AssertionError")]
            /\ ret' = [ret EXCEPT ![p] = NoRet]
       ELSE /\ exc' = [exc EXCEPT ![p] = NoExc]
            /\ ret' = [ret EXCEPT ![p] =
                        [op |-> "is_set_up", index |-> NoIndex,
                         id |-> IF SCHEMA_NAME \in SchemaView(p) THEN 1 ELSE 0]]
    /\ UNCHANGED <<audit, undo, next_id, migrations, schemata, in_tx, with_conn_begins, left_behind, models,
                 clock, now>>

\* create_schema over a script that drops an existing control schema first
create_schema_Reinstall(p) ==
    /\ Running(p)
    /\ IF in_tx[p]
       THEN /\ exc' = [exc EXCEPT ![p] = Raised("create_schema", "AssertionError")]
            /\ UNCHANGED <<audit, next_id, migrations, schemata>>
       ELSE /\ exc' = [exc EXCEPT ![p] = NoExc]
            /\ schemata' = schemata \cup {SCHEMA_NAME}
            /\ audit' = {}
            /\ migrations' = {}
            /\ next_id' = 1
    /\ ret' = [ret EXCEPT ![p] = NoRet]
    /\ UNCHANGED <<undo, in_tx, with_conn_begins, left_behind, models, clock, now>>

\* Database.create_schema: with self.tx(): self.cur.execute(SCHEMA_DDL).
\* tx() asserts not self.in_tx; CREATE SCHEMA raises when the schema exists
\* and the script is rolled back as a whole; otherwise the schema, its three
\* empty tables, their indexes and the sequence of migration_audit.id are
\* created and committed.  in_tx is False again when the method returns.
create_schema(p) ==
    /\ Running(p)
    /\ IF in_tx[p]
       THEN /\ exc' = [exc EXCEPT ![p] = Raised("create_schema", "AssertionError")]
            /\ UNCHANGED <<audit, next_id, migrations, schemata>>
       ELSE IF SCHEMA_NAME \in SchemaView(p)
       THEN /\ exc' = [exc EXCEPT ![p] = Raised("create_schema", "DuplicateSchema")]
            /\ UNCHANGED <<audit, next_id, migrations, schemata>>
       ELSE /\ exc' = [exc EXCEPT ![p] = NoExc]
            /\ schemata' = schemata \cup {SCHEMA_NAME}
            /\ audit' = {}
            /\ migrations' = {}
            /\ next_id' = 1
    /\ ret' = [ret EXCEPT ![p] = NoRet]
    /\ UNCHANGED <<undo, in_tx, with_conn_begins, left_behind, models, clock, now>>

\* Database.create_shim_schema: self.cur.execute("CREATE SCHEMA IF NOT EXISTS
\* ..."), on the cursor directly: no assertion on in_tx.  Inside tx() the
\* statement belongs to the transaction, outside it commits on its own.  It
\* waits for a connection that has created the same name and not committed.
create_shim_schema(p, revision) ==
    LET shim_schema == SHIM_SCHEMA_FORMAT(revision)
    IN  /\ Running(p)
        /\ \A q \in Procs \ {p} : shim_schema \notin undo[q].created
        /\ IF shim_schema \in SchemaView(p)
           THEN UNCHANGED <<schemata, undo>>
           ELSE /\ schemata' = schemata \cup {shim_schema}
                /\ undo' = IF ~InTransaction(p) THEN undo
                           ELSE IF shim_schema \in undo[p].dropped
                           THEN [undo EXCEPT ![p].dropped = @ \ {shim_schema}]
                           ELSE [undo EXCEPT ![p].created = @ \cup {shim_schema}]
        /\ exc' = [exc EXCEPT ![p] = NoExc]
        /\ ret' = [ret EXCEPT ![p] = NoRet]
        /\ UNCHANGED <<audit, next_id, migrations, in_tx, with_conn_begins, left_behind, models, clock, now>>

\* Database.drop_shim_schema: self.cur.execute("DROP SCHEMA IF EXISTS ..."),
\* on the cursor directly: no assertion on in_tx.  It waits for a connection
\* that has dropped the same name and not committed.
drop_shim_schema(p, revision) ==
    LET shim_schema == SHIM_SCHEMA_FORMAT(revision)
    IN  /\ Running(p)
        /\ \A q \in Procs \ {p} : shim_schema \notin undo[q].dropped
        /\ IF shim_schema \notin SchemaView(p)
           THEN UNCHANGED <<schemata, undo>>
           ELSE /\ schemata' = schemata \ {shim_schema}
                /\ undo' = IF ~InTransaction(p) THEN undo
                           ELSE IF shim_schema \in undo[p].created
                           THEN [undo EXCEPT ![p].created = @ \ {shim_schema}]
                           ELSE [undo EXCEPT ![p].dropped = @ \cup {shim_schema}]
        /\ exc' = [exc EXCEPT ![p] = NoExc]
        /\ ret' = [ret EXCEPT ![p] = NoRet]
        /\ UNCHANGED <<audit, next_id, migrations, in_tx, with_conn_begins, left_behind, models, clock, now>>

\* -------------------------------------------------------------- data model
\* the Database variables while only the data model is exercised
database ==
    <<audit, undo, next_id, migrations, schemata, in_tx, with_conn_begins, exc,
      clock, now, ret, left_behind>>

NoDatabase ==
    /\ audit = {}
    /\ undo = [p \in Procs |-> NoUndo]
    /\ next_id = 1
    /\ migrations = {}
    /\ schemata = {}
    /\ in_tx = [p \in Procs |-> FALSE]
    /\ with_conn_begins = TRUE
    /\ exc = [p \in Procs |-> NoExc]
    /\ clock = 0
    /\ now = [p \in Procs |-> 0]
    /\ ret = [p \in Procs |-> NoRet]
    /\ left_behind = {}

\* dataclass PhaseIndex over every stage, change and phase of each revision
PhaseIndexes ==
    [revision : 1..MaxRevision, migration_hash : Hashes, schema_hash : {sha256(1)},
     pre_deploy : BOOLEAN, change : 0..(MaxPhases - 1), phase : 0..(MaxPhases - 1)]

\* sortkey that ranks the post-deploy stage first
sortkey_PostDeployFirst(self) ==
    <<self.revision, IF self.pre_deploy THEN 1 ELSE 0, self.change, self.phase>>

\* PhaseIndex.sortkey
sortkey(self) ==
    <<self.revision, IF self.pre_deploy THEN 0 ELSE 1, self.change, self.phase>>

\* a > b on two tuples of integers of one length, as Python compares them: the
\* first position where they differ decides, equal tuples are not greater
tuple_gt(a, b) ==
    LET differ == {k \in 1..Len(a) : a[k] # b[k]}
        k == CHOOSE k \in differ : \A k2 \in differ : k <= k2
    IN  IF differ = {} THEN FALSE ELSE a[k] > b[k]

\* PhaseIndex.__gt__
__gt__(self, other) == tuple_gt(sortkey(self), sortkey(other))

\* self < other on two PhaseIndex: the dataclass defines no __lt__, so Python
\* evaluates the reflected other.__gt__(self)
__lt__(self, other) == __gt__(other, self)

\* self == other on two PhaseIndex: the __eq__ the dataclass generates, which
\* compares all six fields
__eq__(self, other) ==
    /\ self.revision = other.revision
    /\ self.migration_hash = other.migration_hash
    /\ self.schema_hash = other.schema_hash
    /\ self.pre_deploy = other.pre_deploy
    /\ self.change = other.change
    /\ self.phase = other.phase

\* dataclass PhaseSlice; NoIndex stands for None in start and end
PhaseSlice(start, start_inclusive, end, end_inclusive) ==
    [start |-> start, start_inclusive |-> start_inclusive,
     end |-> end, end_inclusive |-> end_inclusive]

PhaseSlices ==
    [start : PhaseIndexes \cup {NoIndex}, start_inclusive : BOOLEAN,
     end : PhaseIndexes \cup {NoIndex}, end_inclusive : BOOLEAN]

\* __contains__ that takes the end of a slice as inclusive whatever
\* end_inclusive says
__contains___EndInclusive(self, item) ==
    IF /\ self.start # NoIndex
       /\ \/ __gt__(self.start, item)
          \/ ~self.start_inclusive /\ __eq__(self.start, item)
    THEN FALSE
    ELSE IF self.end # NoIndex /\ __lt__(self.end, item)
    THEN FALSE
    ELSE TRUE

\* PhaseSlice.__contains__ (a PhaseIndex is always truthy, so "if self.start"
\* asks whether start is not None)
__contains__(self, item) ==
    IF /\ self.start # NoIndex
       /\ \/ __gt__(self.start, item)
          \/ ~self.start_inclusive /\ __eq__(self.start, item)
    THEN FALSE
    ELSE IF /\ self.end # NoIndex
            /\ \/ __lt__(self.end, item)
               \/ ~self.end_inclusive /\ __eq__(self.end, item)
    THEN FALSE
    ELSE TRUE

\* item in self
PhaseSlice_contains ==
    /\ call.op = "__contains__"
    /\ out = NoOut
    /\ out' = [op |-> call.op, value |-> __contains__(call.self, call.item)]
    /\ UNCHANGED <<call, database>>

\* the basename "<number>-<name>.yml" of a migration file as the character
\* codes of "<number>-<name>": the digits of the number ("0" is 48), "-" (45)
\* and a one-letter name
basename(digits, name) ==
    [k \in 1..Len(digits) |-> 48 + digits[k]] \o <<45, name>>

\* int() of a string of digits
int(string) ==
    LET RECURSIVE value(_)
        value(k) == IF k = 0 THEN 0 ELSE 10 * value(k - 1) + (string[k] - 48)
    IN  value(Len(string))

\* get_revision_number: int(os.path.basename(filename).split("-", 1)[0])
get_revision_number(filename) ==
    LET dash == CHOOSE k \in 1..Len(filename) :
                    filename[k] = 45 /\ \A j \in 1..(k - 1) : filename[j] # 45
    IN  int(SubSeq(filename, 1, dash - 1))

\* a < b on two strings, as Python compares them: the first position where
\* they differ decides, by character code; a proper prefix is smaller
str_lt(a, b) ==
    LET common == IF Len(a) < Len(b) THEN Len(a) ELSE Len(b)
        differ == {k \in 1..common : a[k] # b[k]}
        k == CHOOSE k \in differ : \A k2 \in differ : k <= k2
    IN  IF differ = {} THEN Len(a) < Len(b) ELSE a[k] < b[k]

\* sorted() of the filenames glob.glob returned
RECURSIVE sorted(_)
sorted(filenames) ==
    IF filenames = {} THEN <<>>
    ELSE LET least == CHOOSE f \in filenames :
                          \A g \in filenames \ {f} : str_lt(f, g)
         IN  <<least>> \o sorted(filenames \ {least})

\* revisions[rev.number] = rev for each file of the list in turn: the dict as
\* the sequence of its items in key order (a key keeps the place of its first
\* insertion, its value is the one assigned last)
RECURSIVE revisions_of(_)
revisions_of(filenames) ==
    IF filenames = <<>> THEN <<>>
    ELSE LET before == revisions_of(SubSeq(filenames, 1, Len(filenames) - 1))
             f == filenames[Len(filenames)]
             rev == [number |-> get_revision_number(f), migration_filename |-> f]
             held == {k \in 1..Len(before) : before[k].number = rev.number}
         IN  IF held = {} THEN Append(before, rev)
             ELSE [before EXCEPT ![CHOOSE k \in held : TRUE] = rev]

\* RevisionList.__init__: assert list(self.keys()) == list(range(1, len(self) + 1))
RevisionList_init(revisions) ==
    IF \A k \in 1..Len(revisions) : revisions[k].number = k
    THEN "none" ELSE "AssertionError"

\* RevisionList.parse(dirname), dirname given by the migration files in it
RevisionList_parse ==
    /\ call.op = "parse"
    /\ out = NoOut
    /\ LET revisions == revisions_of(sorted(call.dirname))
       IN  out' = [op |-> "parse",
                   error |-> RevisionList_init(revisions),
                   value |-> IF RevisionList_init(revisions) = "none"
                             THEN revisions ELSE <<>>]
    /\ UNCHANGED <<call, database>>

\* the lists of changes of a stage: a change is given by len(change.inner.phases)
ChangeLists ==
    UNION {[1..n -> 0..MaxPhases] : n \in 0..MaxPhases}

\* class Migration: pre_deploy and post_deploy
Migration == [pre_deploy : ChangeLists, post_deploy : ChangeLists]

\* for i_change, change in enumerate(stage): for i_phase, phase in
\* enumerate(change.inner.phases): the phases of a stage in the order of the
\* two loops, each named by its stage and the positions i_change, i_phase
enumerate_phases(stage, changes) ==
    LET RECURSIVE upto(_)
        upto(n) ==
            IF n = 0 THEN <<>>
            ELSE upto(n - 1) \o [j \in 1..changes[n] |-> <<stage, n - 1, j - 1>>]
    IN  upto(Len(changes))

\* Migration.phases(index): yield new_index, change, phase with new_index =
\* dataclasses.replace(index, change=, phase=) for the pre-deploy changes and
\* dataclasses.replace(index, pre_deploy=False, change=, phase=) for the
\* post-deploy ones.  A change is named by its stage and position.
phases(self, index) ==
    LET pre == enumerate_phases("pre_deploy", self.pre_deploy)
        post == enumerate_phases("post_deploy", self.post_deploy)
    IN  [k \in 1..Len(pre) |->
            [index |-> [index EXCEPT !.change = pre[k][2], !.phase = pre[k][3]],
             change |-> <<pre[k][1], pre[k][2]>>,
             phase |-> pre[k]]]
        \o
        [k \in 1..Len(post) |->
            [index |-> [index EXCEPT !.pre_deploy = FALSE,
                                     !.change = post[k][2], !.phase = post[k][3]],
             change |-> <<post[k][1], post[k][2]>>,
             phase |-> post[k]]]

\* list(migration.phases(index))
Migration_phases ==
    /\ call.op = "phases"
    /\ out = NoOut
    /\ out' = [op |-> "phases", value |-> phases(call.self, call.index)]
    /\ UNCHANGED <<call, database>>

\* yaml.safe_load(migration_text) handed to Migration(**...): the document a
\* text holds.  Text 1 has changes of 1, 2, ... phases before the deploy and
\* one change after it; text 2 has none before and changes of 1, 2, ... after.
yaml_safe_load(migration_text) ==
    IF migration_text = 1
    THEN [pre_deploy |-> [k \in 1..MaxPhases |-> k], post_deploy |-> <<MaxPhases>>]
    ELSE [pre_deploy |-> <<>>, post_deploy |-> [k \in 1..MaxPhases |-> k]]

\* Revision.migration
migration(self) == yaml_safe_load(self.migration_text)

\* Revision.first_index
first_index(self) ==
    [revision |-> self.number, migration_hash |-> migration_hash(self),
     schema_hash |-> schema_hash(self), pre_deploy |-> TRUE, change |-> 0,
     phase |-> 0]

\* Revision.phases
Revision_phases(self) == phases(migration(self), first_index(self))

\* Revision.get_phases with the bounds of the fast path off by one: a
\* revision is skipped as soon as a bound of the slice lies in it
Revision_get_phases_SkipsBound(self, slice) ==
    IF slice.start # NoIndex /\ slice.start.revision >= self.number THEN <<>>
    ELSE IF slice.end # NoIndex /\ slice.end.revision <= self.number THEN <<>>
    ELSE SelectSeq(Revision_phases(self), LAMBDA y : __contains__(slice, y.index))

\* Revision.get_phases
Revision_get_phases(self, slice) ==
    IF slice.start # NoIndex /\ slice.start.revision > self.number THEN <<>>
    ELSE IF slice.end # NoIndex /\ slice.end.revision < self.number THEN <<>>
    ELSE SelectSeq(Revision_phases(self), LAMBDA y : __contains__(slice, y.index))

\* the RevisionLists: revisions 1..N, each with one of the texts; a list is
\* the sequence of its revisions in key order (ordered_revisions)
RevisionLists ==
    UNION {{[k \in 1..n |-> [number |-> k, migration_text |-> texts[k],
                              schema_text |-> 1]] : texts \in [1..n -> Texts]} :
           n \in 0..MaxRevision}

\* RevisionList.get_phases: for num, revision in self.ordered_revisions, with
\* the same two tests on the bounds of the slice, the items of
\* revision.get_phases(slice), each with its revision
RevisionList_get_phases(self, slice) ==
    LET RECURSIVE upto(_)
        upto(num) ==
            IF num = 0 THEN <<>>
            ELSE upto(num - 1) \o
                 (IF slice.start # NoIndex /\ slice.start.revision > num THEN <<>>
                  ELSE IF slice.end # NoIndex /\ slice.end.revision < num THEN <<>>
                  ELSE LET found == Revision_get_phases(self[num], slice)
                       IN  [k \in 1..Len(found) |->
                              [index |-> found[k].index, revision |-> num,
                               change |-> found[k].change, phase |-> found[k].phase]])
    IN  upto(Len(self))

\* list(revisions.get_phases(slice)), or list(revisions[number].get_phases(slice))
\* when a number is given
get_phases ==
    /\ call.op = "get_phases"
    /\ out = NoOut
    /\ out' = [op |-> "get_phases",
               value |-> IF call.number = 0
                         THEN RevisionList_get_phases(call.self, call.slice)
                         ELSE Revision_get_phases(call.self[call.number], call.slice)]
    /\ UNCHANGED <<call, database>>

\* an orchestrator applies the phases of its RevisionList up to, and not
\* including, the phase at call.at: list(revisions.get_phases(PhaseSlice(end=at)))
run_until ==
    /\ call.op = "resume"
    /\ out = NoOut
    /\ out' = [op |-> "stopped",
               value |-> RevisionList_get_phases(
                             call.self, PhaseSlice(NoIndex, TRUE, call.at, FALSE))]
    /\ UNCHANGED <<call, database>>

\* and later goes on from that phase, which it takes up again or passes over:
\* list(revisions.get_phases(PhaseSlice(start=at, start_inclusive=...)))
run_from ==
    /\ call.op = "resume"
    /\ out.op = "stopped"
    /\ out' = [op |-> "resumed",
               value |-> out.value \o
                         RevisionList_get_phases(
                             call.self,
                             PhaseSlice(call.at, call.start_inclusive, NoIndex, FALSE))]
    /\ UNCHANGED <<call, database>>

\* the comparison of two indices, either way round
PhaseIndex_compare ==
    /\ call.op \in {"__gt__", "__lt__"}
    /\ out = NoOut
    /\ out' = [op |-> call.op,
               value |-> IF call.op = "__gt__"
                         THEN __gt__(call.self, call.other)
                         ELSE __lt__(call.self, call.other)]
    /\ UNCHANGED <<call, database>>

\* ---------------------------------------------------------- specifications
\* the indices the concurrent orchestrators of Spec contend for
LedgerIndex == {i \in PhaseIndex : i.migration_hash = sha256(1) /\ i.pre_deploy}

\* the ledger as concurrent orchestrators drive it, each opening tx() around
\* its writes
Next ==
    \E p \in Procs :
        \/ ~in_tx[p] /\ tx_enter(p)
        \/ tx_exit(p)
        \/ in_tx[p] /\ \E index \in LedgerIndex : audit_phase_start(p, index)
        \/ in_tx[p] /\ \E id \in 1..MaxId : audit_phase_end(p, id)
        \/ in_tx[p] /\ \E id \in 1..MaxId : audit_phase_revert_start(p, id)
        \/ in_tx[p] /\ \E id \in 1..MaxId : audit_phase_revert_end(p, id)

Spec == Init /\ [][Next]_vars

\* the indices looked up: one coordinate under two migration hashes
LookupIndex == {i \in PhaseIndex : i.pre_deploy}

\* one orchestrator writing and reading the ledger, inside and outside tx()
NextLookup ==
    \/ tx_enter(1)
    \/ tx_exit(1)
    \/ \E index \in LookupIndex : audit_phase_start(1, index)
    \/ \E id \in 1..MaxId : audit_phase_end(1, id)
    \/ \E id \in 1..MaxId : audit_phase_revert_start(1, id)
    \/ \E id \in 1..MaxId : audit_phase_revert_end(1, id)
    \/ get_last_finished(1)
    \/ \E index \in LookupIndex : get_audit(1, index)
    \/ is_set_up(1)

LookupSpec == Init /\ [][NextLookup]_vars

\* two orchestrators start phases of their own while the row of a third
\* index, started and committed earlier, is unfinished
ThirdIndex ==
    [revision |-> 1, migration_hash |-> sha256(2), schema_hash |-> sha256(1),
     pre_deploy |-> FALSE, change |-> 0, phase |-> 0]

RaceIndex(p) ==
    [revision |-> 1, migration_hash |-> sha256(1), schema_hash |-> sha256(1),
     pre_deploy |-> (p = 1), change |-> 0, phase |-> 0]

RaceInit ==
    /\ audit = {[id |-> 1, started_at |-> 0, finished_at |-> NULL,
                 revert_started_at |-> NULL, revert_finished_at |-> NULL,
                 index |-> ThirdIndex]}
    /\ undo = [p \in Procs |-> NoUndo]
    /\ next_id = 2
    /\ migrations = {}
    /\ schemata = {SCHEMA_NAME}
    /\ in_tx = [p \in Procs |-> FALSE]
    /\ with_conn_begins \in BOOLEAN
    /\ exc = [p \in Procs |-> NoExc]
    /\ clock = 0
    /\ now = [p \in Procs |-> 0]
    /\ ret = [p \in Procs |-> NoRet]
    /\ left_behind = {}
    /\ call = NoCall
    /\ out = NoOut

NextRace ==
    \E p \in Procs :
        \/ ~in_tx[p] /\ tx_enter(p)
        \/ tx_exit(p)
        \/ in_tx[p] /\ audit_phase_start(p, RaceIndex(p))
        \/ in_tx[p] /\ \E id \in 1..MaxId : audit_phase_end(p, id)

RaceSpec == RaceInit /\ [][NextRace]_vars

\* orchestrators registering revisions
NextRegistry ==
    \E p \in Procs :
        \/ ~in_tx[p] /\ tx_enter(p)
        \/ tx_exit(p)
        \/ \E revision \in Revision : upsert(p, revision)

RegistrySpec == Init /\ [][NextRegistry]_vars

\* Database.__init__ on a database where the migrator was never installed
InstallInit ==
    /\ audit = {}
    /\ undo = [p \in Procs |-> NoUndo]
    /\ next_id = 1
    /\ migrations = {}
    /\ schemata = {}
    /\ in_tx = [p \in Procs |-> FALSE]
    /\ with_conn_begins \in BOOLEAN
    /\ exc = [p \in Procs |-> NoExc]
    /\ clock = 0
    /\ now = [p \in Procs |-> 0]
    /\ ret = [p \in Procs |-> NoRet]
    /\ left_behind = {}
    /\ call = NoCall
    /\ out = NoOut

\* the revisions registered after the install: one number, two texts
CatalogRevision == {r \in Revision : r.number = 1 /\ r.schema_text = 1}

\* orchestrators installing the control schema, registering revisions in it,
\* starting a phase, and creating and dropping shim schemas, inside and
\* outside tx(); the tables are used only once they exist
NextCatalog ==
    \E p \in Procs :
        \/ tx_enter(p)
        \/ tx_exit(p)
        \/ is_set_up(p)
        \/ create_schema(p)
        \/ \E revision \in Numbers : create_shim_schema(p, revision)
        \/ \E revision \in Numbers : drop_shim_schema(p, revision)
        \/ /\ SCHEMA_NAME \in schemata
           /\ \E revision \in CatalogRevision : upsert(p, revision)
        \/ /\ SCHEMA_NAME \in schemata
           /\ \E index \in LedgerIndex : audit_phase_start(p, index)

CatalogSpec == InstallInit /\ [][NextCatalog]_vars

\* The process of orchestrator p ends without warning (killed, host lost),
\* wherever it is: the Database object is gone with its in_tx flag, and the
\* connection psycopg2.connect opened is closed by the server, which rolls
\* back the transaction the connection had open, if any, and keeps what was
\* committed.  A new process then takes the place of p, with a new Database
\* object.  The rows of the index p was driving that are committed and
\* unfinished at that moment are the rows p has left behind.
crash(p) ==
    LET others == Procs \ {p}
        kept == {r \in audit : r.id \notin Locked(p)} \cup undo[p].old
        committed == {r \in kept : \A q \in others : r.id \notin Locked(q)}
                         \cup UNION {undo[q].old : q \in others}
    IN  /\ audit' = kept
        /\ schemata' = (schemata \ undo[p].created) \cup undo[p].dropped
        /\ undo' = [undo EXCEPT ![p] = NoUndo]
        /\ in_tx' = [in_tx EXCEPT ![p] = FALSE]
        /\ now' = [now EXCEPT ![p] = 0]
        /\ exc' = [exc EXCEPT ![p] = NoExc]
        /\ ret' = [ret EXCEPT ![p] = NoRet]
        /\ left_behind' = left_behind \cup
               {r.id : r \in {r \in committed : /\ r.index = RaceIndex(p)
                                                /\ r.finished_at = NULL}}
        /\ UNCHANGED <<next_id, migrations, clock, with_conn_begins, models>>

\* An orchestrator drives the ledger on its index, opening tx() around its
\* writes, and is liable to end at any point; once it has left a row behind,
\* the other process comes to drive the ledger too, on an index of its own,
\* alongside the process that took the place of the first.
NextCrash ==
    \E p \in Procs :
        \/ ~in_tx[p] /\ (p = 1 \/ left_behind # {}) /\ tx_enter(p)
        \/ tx_exit(p)
        \/ in_tx[p] /\ audit_phase_start(p, RaceIndex(p))
        \/ in_tx[p] /\ \E id \in 1..MaxId : audit_phase_end(p, id)
        \/ in_tx[p] /\ \E id \in 1..MaxId : audit_phase_revert_start(p, id)
        \/ in_tx[p] /\ \E id \in 1..MaxId : audit_phase_revert_end(p, id)
        \/ crash(p)

CrashSpec == Init /\ [][NextCrash]_vars

\* two indices are compared
CompareInit ==
    /\ NoDatabase
    /\ call \in [op : {"__gt__", "__lt__"}, self : PhaseIndexes, other : PhaseIndexes]
    /\ out = NoOut

NextCompare == PhaseIndex_compare

CompareSpec == CompareInit /\ [][NextCompare]_vars

\* an index is looked up in a slice
SliceInit ==
    /\ NoDatabase
    /\ call \in [op : {"__contains__"}, self : PhaseSlices, item : PhaseIndexes]
    /\ out = NoOut

NextSlice == PhaseSlice_contains

SliceSpec == SliceInit /\ [][NextSlice]_vars

\* str() of a revision number below 100
str(number) ==
    IF number < 10 THEN <<number>> ELSE <<number \div 10, number % 10>>

\* the migration files a directory may hold: revisions 1 to 10, a second file
\* for revision 1, and the file of revision 2 under a zero-padded number
MigrationFiles ==
    {basename(str(number), 97) : number \in 1..10}
        \cup {basename(str(1), 98), basename(<<0, 2>>, 97)}

\* a directory of migration files is parsed
ParseInit ==
    /\ NoDatabase
    /\ call \in [op : {"parse"}, dirname : SUBSET MigrationFiles]
    /\ out = NoOut

NextParse == RevisionList_parse

ParseSpec == ParseInit /\ [][NextParse]_vars

\* the phases of a migration are enumerated from a starting index
MigrationInit ==
    /\ NoDatabase
    /\ call \in [op : {"phases"}, self : Migration, index : PhaseIndexes]
    /\ out = NoOut

NextMigration == Migration_phases

MigrationSpec == MigrationInit /\ [][NextMigration]_vars

\* the phases of a RevisionList, or of one of its revisions, inside a slice
PhasesInit ==
    /\ NoDatabase
    /\ call \in [op : {"get_phases"}, self : RevisionLists,
                  number : 0..MaxRevision, slice : PhaseSlices]
    /\ call.number <= Len(call.self)
    /\ out = NoOut

NextPhases == get_phases

PhasesSpec == PhasesInit /\ [][NextPhases]_vars

\* the run of a RevisionList is stopped before one of its phases and resumed
ResumeInit ==
    /\ NoDatabase
    /\ call \in [op : {"resume"}, self : RevisionLists, at : PhaseIndexes,
                  start_inclusive : BOOLEAN]
    /\ \E y \in {RevisionList_get_phases(call.self, PhaseSlice(NoIndex, TRUE, NoIndex, FALSE))} :
           \E k \in 1..Len(y) : y[k].index = call.at
    /\ out = NoOut

NextResume == run_until \/ run_from

ResumeSpec == ResumeInit /\ [][NextResume]_vars

\* ------------------------------------------------------------------ claims
\* a row is in flight: its forward phase or its revert has begun and not ended
RowInFlight(r) ==
    \/ r.finished_at = NULL
    \/ r.revert_started_at # NULL /\ r.revert_finished_at = NULL

\* the ledger as a new connection and as each open transaction sees it
Ledgers == {Committed} \cup {View(p) : p \in Procs}

TimestampColumns == {"started_at", "finished_at", "revert_started_at", "revert_finished_at"}

\* C1: in every reachable state, whatever the interleaving of start, finish,
\* revert_start and revert_finish by the orchestrators, at most one audit row
\* of the ledger is in flight.
C1_AtMostOneInFlight ==
    \A ledger \in Ledgers : Cardinality({r \in ledger : RowInFlight(r)}) <= 1

\* a committed row is in flight beside a settled one, and a contender was refused
C1_Witness ==
    /\ \E r \in Committed : RowInFlight(r)
    /\ \E r \in Committed : ~RowInFlight(r)
    /\ \E p \in Procs : exc[p].error = "UniqueViolation"

Attempted(p) ==
    in_tx[p] /\ (exc[p].op = "audit_phase_start" \/ undo[p].ins # {})

Succeeded(p) == in_tx[p] /\ undo[p].ins # {}

Refused(p) ==
    /\ in_tx[p]
    /\ undo[p].ins = {}
    /\ exc[p] = Raised("audit_phase_start", "UniqueViolation")

OncePerRow(p, id, col) ==
    IF \E r \in View(p) : r.id = id /\ r[col] = NULL
    THEN exc'[p] = NoExc =>
            /\ \E r \in View(p)' : r.id = id /\ r[col] = Now(p)
            /\ \A r \in audit' : r.id # id => r \in audit
    ELSE /\ exc'[p].error = "ValueError"
         /\ audit' = audit
         /\ undo' = undo

RevertOrder(r) ==
    /\ r.revert_started_at # NULL => r.finished_at # NULL
    /\ r.revert_finished_at # NULL => r.revert_started_at # NULL

\* C5: every row, committed or not, has revert_started_at set only if
\* finished_at is set and revert_finished_at set only if revert_started_at is
\* set; a revert_start of an unfinished row and a revert_finish of a row whose
\* revert never started raise and leave every row as it was.
C5_RevertOrder ==
    /\ [](\A r \in audit \cup UNION {undo[p].old : p \in Procs} : RevertOrder(r))
    /\ [][\A p \in Procs, id \in 1..MaxId :
            /\ (/\ in_tx[p]
                /\ \E r \in View(p) : r.id = id /\ r.finished_at = NULL
                /\ audit_phase_revert_start(p, id))
               => (exc'[p] # NoExc /\ audit' = audit /\ undo' = undo)
            /\ (/\ in_tx[p]
                /\ \E r \in View(p) : r.id = id /\ r.revert_started_at = NULL
                /\ audit_phase_revert_end(p, id))
               => (exc'[p] # NoExc /\ audit' = audit /\ undo' = undo)]_vars

\* a revert_start of an unfinished row has just been refused
C5_Witness ==
    \E p \in Procs :
        /\ exc[p] = Raised("audit_phase_revert_start", "CheckViolation")
        /\ \E r \in View(p) : r.finished_at = NULL

\* row r lives on as r2
LivesOn(r, r2) ==
    /\ r2.id = r.id
    /\ r2.index = r.index
    /\ \A col \in TimestampColumns : r[col] # NULL => r2[col] = r[col]

\* C6: no operation deletes a row of the ledger, changes its id or its
\* PhaseIndex, or clears or overwrites a timestamp that is set: this holds of
\* the committed ledger at every step, and of the ledger an open transaction
\* sees at every step but the rollback of that transaction.
C6_MutateForward ==
    [][/\ \A r \in Committed : \E r2 \in Committed' : LivesOn(r, r2)
       /\ \A p \in Procs :
            (in_tx[p] /\ exc[p] # NoExc /\ ~in_tx'[p])
            \/ \A r \in View(p) : \E r2 \in View(p)' : LivesOn(r, r2)]_vars

\* a committed row has gone through its whole life and a later call on a
\* row was refused
C6_Witness ==
    /\ \E r \in Committed : r.revert_finished_at # NULL
    /\ \E p \in Procs : exc[p].error = "ValueError"

\* the rows that are finished and whose revert is finished
Settled == {r \in Committed : r.finished_at # NULL /\ r.revert_finished_at # NULL}

Matching(index) == {r \in Committed : r.index = index}

C9_ReRegisterIsNoop ==
    [][\A p \in Procs, revision \in Revision :
          (/\ ~in_tx[p]
           /\ \E row \in migrations : /\ row.revision = revision.number
                                      /\ row.file = revision.migration_text
           /\ upsert(p, revision))
          => (exc'[p] = NoExc /\ migrations' = migrations)]_vars

\* C10 as stated: registering a revision number already registered, with a
\* text that differs from the stored one, raises and leaves the registry
\* unchanged.
C10_MismatchRaises ==
    [][\A p \in Procs, revision \in Revision :
          (/\ ~in_tx[p]
           /\ \E row \in migrations : row.revision = revision.number
           /\ \A row \in migrations :
                 row.revision = revision.number => row.file # revision.migration_text
           /\ upsert(p, revision))
          => (exc'[p] # NoExc /\ migrations' = migrations)]_vars

\* C11 as stated: every operation that changes persistent storage (a ledger
\* start, a registry upsert, the creation or the drop of a shim schema) does so
\* only while the tx() of its Database is open: in_tx is true when the
\* statement is issued.  (create_schema opens its own tx() around its script.)
C11_MutationsInsideTx ==
    [][\A p \in Procs :
          /\ \A index \in LedgerIndex :
                (audit_phase_start(p, index) /\ audit' # audit) => in_tx[p]
          /\ \A revision \in CatalogRevision :
                (upsert(p, revision) /\ migrations' # migrations) => in_tx[p]
          /\ \A revision \in Numbers :
                (create_shim_schema(p, revision) /\ schemata' # schemata) => in_tx[p]
          /\ \A revision \in Numbers :
                (drop_shim_schema(p, revision) /\ schemata' # schemata) => in_tx[p]]_vars

\* the rows carrying a timestamp of the transaction p opened last (with one
\* orchestrator the clock reads that time in every statement of the body)
StampedBy(p, rows) ==
    {r \in rows : \E col \in TimestampColumns : r[col] = now[p]}

TouchesNothing ==
    UNCHANGED <<audit, undo, next_id, migrations, schemata, in_tx>>

\* C13: a ledger write called with no tx() open, a read (find, last_finished,
\* is_installed) called inside tx(), and tx() called inside tx() each raise
\* AssertionError and change neither the ledger nor anything else stored.
C13_MisuseFailsLoudly ==
    [][\A p \in Procs :
          /\ \A index \in LookupIndex :
                (~in_tx[p] /\ audit_phase_start(p, index))
                => (/\ exc'[p] = Raised("audit_phase_start", "AssertionError")
                    /\ TouchesNothing)
          /\ \A id \in 1..MaxId :
                /\ (~in_tx[p] /\ audit_phase_end(p, id))
                   => (/\ exc'[p] = Raised("audit_phase_end", "AssertionError")
                       /\ TouchesNothing)
                /\ (~in_tx[p] /\ audit_phase_revert_start(p, id))
                   => (/\ exc'[p] = Raised("audit_phase_revert_start", "AssertionError")
                       /\ TouchesNothing)
                /\ (~in_tx[p] /\ audit_phase_revert_end(p, id))
                   => (/\ exc'[p] = Raised("audit_phase_revert_end", "AssertionError")
                       /\ TouchesNothing)
          /\ \A index \in LookupIndex :
                (in_tx[p] /\ get_audit(p, index))
                => (/\ exc'[p] = Raised("get_audit", "AssertionError")
                    /\ ret'[p] = NoRet
                    /\ TouchesNothing)
          /\ (in_tx[p] /\ get_last_finished(p))
                => (/\ exc'[p] = Raised("get_last_finished", "AssertionError")
                    /\ ret'[p] = NoRet
                    /\ TouchesNothing)
          /\ (in_tx[p] /\ is_set_up(p))
                => (/\ exc'[p] = Raised("is_set_up", "AssertionError")
                    /\ ret'[p] = NoRet
                    /\ TouchesNothing)
          /\ (in_tx[p] /\ tx_enter(p))
                => (/\ exc'[p] = Raised("tx", "AssertionError")
                    /\ TouchesNothing)]_vars

\* a finish called outside tx() has just been refused although the row it
\* names is committed and unfinished
C13_Witness ==
    \E p \in Procs :
        /\ ~in_tx[p]
        /\ exc[p] = Raised("audit_phase_end", "AssertionError")
        /\ \E r \in Committed : r.finished_at = NULL

\* the stage of an index as a rank: pre-deploy 0, post-deploy 1
StageRank(i) == IF i.pre_deploy THEN 0 ELSE 1

\* a comes before b in the order of (revision, stage-rank, change, phase)
Before(a, b) ==
    \/ a.revision < b.revision
    \/ a.revision = b.revision /\ StageRank(a) < StageRank(b)
    \/ a.revision = b.revision /\ StageRank(a) = StageRank(b) /\ a.change < b.change
    \/ /\ a.revision = b.revision /\ StageRank(a) = StageRank(b)
       /\ a.change = b.change /\ a.phase < b.phase

\* C14: self > other is "other before self" and self < other is "self before
\* other" in the lexicographic order of (revision, stage-rank, change, phase);
\* so a pre-deploy index of a revision is below every post-deploy index of it,
\* which is below every pre-deploy index of the next revision; and the answer
\* is the same whatever the hashes of the two indices.
C14_LexicographicOrder ==
    out.op \in {"__gt__", "__lt__"} =>
        LET lo == IF out.op = "__gt__" THEN call.other ELSE call.self
            hi == IF out.op = "__gt__" THEN call.self ELSE call.other
        IN  /\ out.value = Before(lo, hi)
            /\ (lo.revision = hi.revision /\ lo.pre_deploy /\ ~hi.pre_deploy)
                  => out.value
            /\ (lo.revision + 1 = hi.revision /\ ~lo.pre_deploy /\ hi.pre_deploy)
                  => out.value
            /\ \A h1, h2 \in Hashes :
                  __lt__([lo EXCEPT !.migration_hash = h1],
                         [hi EXCEPT !.migration_hash = h2]) = out.value

\* a post-deploy index of a revision, at its last change and phase, was found
\* below the first pre-deploy index of the next revision, under another hash
C14_Witness ==
    /\ out.op = "__lt__"
    /\ out.value
    /\ call.self.revision + 1 = call.other.revision
    /\ ~call.self.pre_deploy /\ call.other.pre_deploy
    /\ call.self.change > call.other.change /\ call.self.phase > call.other.phase
    /\ call.self.migration_hash # call.other.migration_hash

\* x is inside a slice by the order of (revision, stage-rank, change, phase)
Inside(slice, x) ==
    /\ \/ slice.start = NoIndex
       \/ IF slice.start_inclusive THEN ~Before(x, slice.start)
          ELSE Before(slice.start, x)
    /\ \/ slice.end = NoIndex
       \/ IF slice.end_inclusive THEN ~Before(slice.end, x)
          ELSE Before(x, slice.end)

\* C15 as stated: x is in a slice iff x is not before start (strictly after it
\* when start is exclusive) and not after end (strictly before it when end is
\* exclusive), in the order of (revision, stage-rank, change, phase); an
\* absent bound restricts nothing.
C15_Containment ==
    out.op = "__contains__" => out.value = Inside(call.self, call.item)

\* the revision numbers of the files of a directory
NumbersIn(dirname) == {get_revision_number(f) : f \in dirname}

\* the numbers of the files are 1..N, N the number of files: no gap, no duplicate
DenseNumbering(dirname) == NumbersIn(dirname) = 1..Cardinality(dirname)

\* C16 as stated: parse succeeds exactly when the revision numbers of the
\* files are 1..N without gap or duplicate, whatever N; a gap or a duplicate
\* raises; and the RevisionList built has the keys 1..len in that order.
C16_ParseDense ==
    out.op = "parse" =>
        /\ (out.error = "none") <=> DenseNumbering(call.dirname)
        /\ \A k \in 1..Len(out.value) : out.value[k].number = k

\* the phases of a migration, each named by stage, change and own position
PhasesOf(document) ==
    {<<"pre_deploy", c - 1, j - 1>> :
        c \in 1..Len(document.pre_deploy), j \in 1..MaxPhases}
    \cup {<<"post_deploy", c - 1, j - 1>> :
        c \in 1..Len(document.post_deploy), j \in 1..MaxPhases}

\* C17 as stated: phases(starting_index) yields one triple per phase; the
\* index of a triple has pre_deploy true for a phase of a pre-deploy change
\* and false for one of a post-deploy change, change and phase equal to the
\* positions in their lists, and the revision and hashes of starting_index;
\* the indices yielded are strictly increasing, hence pairwise distinct
\* (pre-deploy changes first, changes and phases in list order).
C17_PhasesEnumeration ==
    out.op = "phases" =>
        LET y == out.value
            stage(p) == IF p[1] = "pre_deploy" THEN call.self.pre_deploy
                        ELSE call.self.post_deploy
            all == {p \in PhasesOf(call.self) : p[3] < stage(p)[p[2] + 1]}
        IN  /\ {y[k].phase : k \in 1..Len(y)} = all
            /\ Len(y) = Cardinality(all)
            /\ \A k \in 1..Len(y) :
                  /\ y[k].index.pre_deploy = (y[k].phase[1] = "pre_deploy")
                  /\ y[k].index.change = y[k].phase[2]
                  /\ y[k].index.phase = y[k].phase[3]
                  /\ y[k].change = <<y[k].phase[1], y[k].phase[2]>>
                  /\ y[k].index.revision = call.index.revision
                  /\ y[k].index.migration_hash = call.index.migration_hash
                  /\ y[k].index.schema_hash = call.index.schema_hash
            /\ \A k, l \in 1..Len(y) : k < l => Before(y[k].index, y[l].index)

\* the control schema exists, for every connection
Installed == SCHEMA_NAME \in schemata

\* C18: create_control_schema() on a database without the control schema
\* creates it with its tables empty, and is_installed() is true from then on;
\* on a database that has the control schema it raises and leaves the
\* registry, the ledger and its id sequence as they were; the schema appears
\* only through a create that succeeded and never disappears, and
\* is_installed() answers whether it is there.
C18_InstallOnce ==
    [][/\ \A p \in Procs :
            /\ (~in_tx[p] /\ ~Installed /\ create_schema(p))
               => (/\ exc'[p] = NoExc
                   /\ Installed'
                   /\ audit' = {} /\ migrations' = {}
                   /\ ~in_tx'[p])
            /\ (~in_tx[p] /\ Installed /\ create_schema(p))
               => (/\ exc'[p] = Raised("create_schema", "DuplicateSchema")
                   /\ UNCHANGED <<audit, undo, next_id, migrations, schemata>>
                   /\ ~in_tx'[p])
            /\ (~in_tx[p] /\ is_set_up(p))
               => (ret'[p].op = "is_set_up" /\ (ret'[p].id = 1 <=> Installed))
       /\ (~Installed /\ Installed')
            => \E p \in Procs : create_schema(p) /\ exc'[p] = NoExc
       /\ Installed => Installed']_vars

\* a second create has just been refused on a database whose registry and
\* ledger hold rows
C18_Witness ==
    \E p \in Procs :
        /\ exc[p] = Raised("create_schema", "DuplicateSchema")
        /\ migrations # {}
        /\ Committed # {}

\* phases() of every revision of a list in ascending revision order, each
\* item with its revision
RECURSIVE EveryPhase(_)
EveryPhase(revisions) ==
    IF revisions = <<>> THEN <<>>
    ELSE LET num == Len(revisions)
             last == Revision_phases(revisions[num])
         IN  EveryPhase(SubSeq(revisions, 1, num - 1)) \o
             [k \in 1..Len(last) |->
                [index |-> last[k].index, revision |-> num,
                 change |-> last[k].change, phase |-> last[k].phase]]

\* C19: get_phases(slice) of a RevisionList yields exactly the phases() of
\* every revision, in ascending revision order, that are contained in the
\* slice, and get_phases(slice) of a Revision exactly those of its phases()
\* that are: the tests on the revisions of the bounds skip nothing that is
\* inside the slice.
C19_FastPathEquivalent ==
    out.op = "get_phases" =>
        IF call.number = 0
        THEN out.value = SelectSeq(EveryPhase(call.self),
                                   LAMBDA y : __contains__(call.slice, y.index))
        ELSE out.value = SelectSeq(Revision_phases(call.self[call.number]),
                                   LAMBDA y : __contains__(call.slice, y.index))

\* get_phases of a list of two revisions has passed over the first revision,
\* which lies below the start of the slice, and yielded some but not all of
\* the phases of the second
C19_Witness ==
    /\ out.op = "get_phases"
    /\ call.number = 0
    /\ Len(call.self) = 2
    /\ call.slice.start # NoIndex /\ call.slice.start.revision = 2
    /\ out.value # <<>>
    /\ Len(out.value) < Len(Revision_phases(call.self[2]))

\* a sequence without its items at index s
Without(seq, s) == SelectSeq(seq, LAMBDA y : y.index # s)

\* C20: for an index s of the phase sequence of a RevisionList, the phases
\* up to s exclusive followed by the phases from s inclusive are the whole
\* sequence, nothing lost and nothing twice; followed instead by the phases
\* from s exclusive they are the whole sequence less s alone, the part after s
\* being exactly the phases strictly after s.
C20_Resumable ==
    /\ out.op = "stopped" =>
           /\ \A k \in 1..Len(out.value) : Before(out.value[k].index, call.at)
           /\ Len(out.value) < Len(EveryPhase(call.self))
           /\ out.value = SubSeq(EveryPhase(call.self), 1, Len(out.value))
    /\ out.op = "resumed" =>
           IF call.start_inclusive
           THEN out.value = EveryPhase(call.self)
           ELSE /\ out.value = Without(EveryPhase(call.self), call.at)
                /\ Len(out.value) + 1 = Len(EveryPhase(call.self))

\* a run stopped before a phase in the middle of the second revision has
\* been resumed from that phase
C20_Witness ==
    /\ out.op = "resumed"
    /\ call.start_inclusive
    /\ call.at.revision = 2
    /\ \E k \in 2..(Len(out.value) - 1) : out.value[k].index = call.at

\* the rows left behind that a statement of p sees unfinished
Orphans(p) == {r \in View(p) : r.id \in left_behind /\ r.finished_at = NULL}

\* the indices the orchestrators of CrashSpec start
CrashIndex == {RaceIndex(p) : p \in Procs}

====
